---- MODULE Spec2Model ----
(***************************************************************************)
(* Model of backend/api.py: the /predict route of the clickbait detector.  *)
(*                                                                         *)
(* Text is a sequence of one-character strings.  Scores that the code      *)
(* rounds to two decimals (ai_score, sim_score, final) are integers in     *)
(* hundredths: 7499 is 74.99.  rule_score is in whole points.              *)
(* One request is followed from its arrival to its response; the actions   *)
(* are the stretches of predict between two blocking collaborator calls,   *)
(* and what a collaborator returns is the input of the action after it.    *)
(***************************************************************************)
EXTENDS Integers, Sequences, FiniteSets

\* ------------------------------------------------------------------------
\* Bounds of the model
\* ------------------------------------------------------------------------

\* length of the long runs of "!" and "?" appended to titles
ManyMarks == 200

\* ------------------------------------------------------------------------
\* Python values and string operations
\* ------------------------------------------------------------------------

\* Python's None: a one-element sequence that is no text, since every
\* character of a text is a one-character string
None == <<"None">>

Lowercase == <<"a", "b", "c", "d", "e", "f", "g", "h", "i", "j", "k", "l", "m",
               "n", "o", "p", "q", "r", "s", "t", "u", "v", "w", "x", "y", "z">>

Uppercase == <<"A", "B", "C", "D", "E", "F", "G", "H", "I", "J", "K", "L", "M",
               "N", "O", "P", "Q", "R", "S", "T", "U", "V", "W", "X", "Y", "Z">>

Digits == {"0", "1", "2", "3", "4", "5", "6", "7", "8", "9"}

Whitespace == {" ", "\t", "\n", "\r", "\f"}

Range(s) == {s[i] : i \in 1..Len(s)}

\* truth value of a str-or-None: None and "" are falsy
Truthy(s) == s # None /\ s # <<>>

\* x or "" (lines 89)
OrEmpty(s) == IF Truthy(s) THEN s ELSE <<>>

\* str.lower() of one character
LowerChar(c) ==
  IF c \in Range(Uppercase)
    THEN Lowercase[CHOOSE i \in 1..26 : Uppercase[i] = c]
    ELSE c

\* str.lower()
lower(s) == [i \in 1..Len(s) |-> LowerChar(s[i])]

\* str.isupper(): at least one cased character and no lower-case one
isupper(s) ==
  /\ \E i \in 1..Len(s) : s[i] \in Range(Uppercase)
  /\ \A i \in 1..Len(s) : s[i] \notin Range(Lowercase)

\* str.count(c) for a one-character c
count(s, c) == Cardinality({i \in 1..Len(s) : s[i] = c})

\* word in s
Contains(s, word) ==
  \E i \in 1..(Len(s) - Len(word) + 1) : SubSeq(s, i, i + Len(word) - 1) = word

\* str.strip(): leading and trailing whitespace removed
strip(s) ==
  LET keep == {i \in 1..Len(s) : s[i] \notin Whitespace}
  IN  IF keep = {} THEN <<>>
      ELSE LET lo == CHOOSE i \in keep : \A j \in keep : i <= j
               hi == CHOOSE i \in keep : \A j \in keep : j <= i
           IN  SubSeq(s, lo, hi)

\* s[:n]
Prefix(s, n) == SubSeq(s, 1, IF Len(s) < n THEN Len(s) ELSE n)

\* n copies of the character c
Repeat(c, n) == [i \in 1..n |-> c]

\* " ".join(parts)
RECURSIVE Join(_)
Join(parts) ==
  IF parts = <<>> THEN <<>>
  ELSE IF Len(parts) = 1 THEN parts[1]
  ELSE parts[1] \o <<" ">> \o Join(Tail(parts))

Min(a, b) == IF a < b THEN a ELSE b

\* round(x, 2) of the exact value num/den hundredths (den > 0).  The code
\* rounds a binary float: off a tie the nearest hundredth is returned, on a
\* decimal tie the float lies on either side, so both neighbours are possible.
Round2(num, den) ==
  LET q == num \div den
      r == num % den
  IN  IF 2 * r < den THEN {q}
      ELSE IF 2 * r > den THEN {q + 1}
      ELSE {q, q + 1}

\* ------------------------------------------------------------------------
\* Program constants
\* ------------------------------------------------------------------------

CLICKBAIT_WORDS ==
  << <<"s", "h", "o", "c", "k", "i", "n", "g">>,
     <<"u", "n", "b", "e", "l", "i", "e", "v", "a", "b", "l", "e">>,
     <<"s", "e", "c", "r", "e", "t">>,
     <<"e", "x", "p", "o", "s", "e", "d">>,
     <<"y", "o", "u", " ", "w", "o", "n", "'", "t", " ", "b", "e", "l", "i", "e", "v", "e">>,
     <<"i", "n", "s", "a", "n", "e">>,
     <<"t", "r", "i", "c", "k">>,
     <<"o", "v", "e", "r", "n", "i", "g", "h", "t">>,
     <<"m", "i", "l", "l", "i", "o", "n", "a", "i", "r", "e">>,
     <<"s", "c", "a", "m">>,
     <<"w", "a", "r", "n", "i", "n", "g">>,
     <<"m", "u", "s", "t", " ", "w", "a", "t", "c", "h">>,
     <<"g", "o", "n", "e", " ", "w", "r", "o", "n", "g">>,
     <<"l", "e", "a", "k", "e", "d">> >>

\* the patterns of extract_id, each a literal followed by ([^stop]+)
patterns ==
  << [lit |-> <<"v", "=">>, stop |-> "&"],
     [lit |-> <<"y", "o", "u", "t", "u", ".", "b", "e", "/">>, stop |-> "?"],
     [lit |-> <<"s", "h", "o", "r", "t", "s", "/">>, stop |-> "?"] >>

\* content[:3000]
ContentLimit == 3000

\* ------------------------------------------------------------------------
\* extract_id
\* ------------------------------------------------------------------------

\* positions where re.search can match lit([^stop]+): the literal, then at
\* least one character that is not stop
MatchStarts(p, s) ==
  {i \in 1..Len(s) :
     /\ i + Len(p.lit) <= Len(s)
     /\ SubSeq(s, i, i + Len(p.lit) - 1) = p.lit
     /\ s[i + Len(p.lit)] # p.stop}

\* match.group(1) of the leftmost match: the longest run without stop
Group1(p, s) ==
  LET i    == CHOOSE a \in MatchStarts(p, s) : \A b \in MatchStarts(p, s) : a <= b
      from == i + Len(p.lit)
      ends == {e \in from..Len(s) :
                 /\ \A k \in from..e : s[k] # p.stop
                 /\ e = Len(s) \/ s[e + 1] = p.stop}
  IN  SubSeq(s, from, CHOOSE e \in ends : TRUE)

RECURSIVE FirstMatch(_, _)
FirstMatch(k, s) ==
  IF k > Len(patterns) THEN None
  ELSE IF MatchStarts(patterns[k], s) # {} THEN Group1(patterns[k], s)
  ELSE FirstMatch(k + 1, s)

extract_id(u) == FirstMatch(1, u)

\* ------------------------------------------------------------------------
\* Scoring code of predict
\* ------------------------------------------------------------------------

\* number of CLICKBAIT_WORDS found in the lower-cased title (lines 97-99)
KeywordHits(t) ==
  Cardinality({k \in 1..Len(CLICKBAIT_WORDS) : Contains(lower(t), CLICKBAIT_WORDS[k])})

\* rule_score before the clamp (lines 96-102)
RuleRaw(t) ==
    8 * KeywordHits(t)
  + Min(count(t, "!") * 2, 10) + Min(count(t, "?") * 2, 10)
  + (IF isupper(t) /\ Len(t) > 10 THEN 10 ELSE 0)
  + (IF Range(t) \cap Digits # {} THEN 5 ELSE 0)

\* RuleScore without the clamp of line 103
RuleScoreUnclamped(t) == RuleRaw(t)

\* rule_score (lines 96-103)
RuleScore(t) == Min(RuleRaw(t), 40)

\* ai_score = round(score * 100, 2), score in millionths (line 93)
AiScores(score) == Round2(score, 100)

\* round(float(sim) * 100, 2), sim in millionths (line 68)
SimScores(cos) == Round2(cos, 100)

\* NoContent without the strip() test of line 61
NoContentUnstripped(content) == ~Truthy(content)

\* the guard of similarity_score: content falsy or blank (line 61)
NoContent(content) == ~Truthy(content) \/ strip(content) = <<>>

\* Weighted with the mode chosen by the similarity score instead of the flag
WeightedBySimilarity(used, ai, rule, sim) ==
  IF sim # 0
    THEN ai * 45 + (rule * 100) * 25 + (10000 - sim) * 30
    ELSE ai * 60 + (rule * 100) * 40

\* final before rounding, in ten-thousandths (lines 111-117)
Weighted(used, ai, rule, sim) ==
  IF used
    THEN ai * 45 + (rule * 100) * 25 + (10000 - sim) * 30
    ELSE ai * 60 + (rule * 100) * 40

\* round(final, 2) (line 119)
Finals(used, ai, rule, sim) == Round2(Weighted(used, ai, rule, sim), 100)

\* Level with strict comparisons
LevelStrict(f) ==
  IF f > 7500 THEN "Very High"
  ELSE IF f > 6000 THEN "High"
  ELSE IF f > 4500 THEN "Medium"
  ELSE "Low"

\* classification level (lines 122-125)
Level(f) ==
  IF f >= 7500 THEN "Very High"
  ELSE IF f >= 6000 THEN "High"
  ELSE IF f >= 4500 THEN "Medium"
  ELSE "Low"

\* the success response (lines 127-136)
Success(t, ai, rule, sim, used, f) ==
  [title            |-> t,
   ai_score         |-> ai,
   rule_score       |-> rule,
   similarity_score |-> sim,
   transcript_used  |-> used,
   final_score      |-> f,
   risk_level       |-> Level(f),
   clickbait        |-> f >= 5500]

ErrorResponse(msg) == [error |-> msg]

\* ------------------------------------------------------------------------
\* Inputs: request URLs and what the collaborators return
\* ------------------------------------------------------------------------

\* VideoData.url
Urls ==
  { <<"w", "a", "t", "c", "h", "?", "v", "=", "a", "b", "&", "t", "=", "1">>,
    <<"y", "o", "u", "t", "u", ".", "b", "e", "/", "a", "b", "?", "t", "=", "1">>,
    <<"s", "h", "o", "r", "t", "s", "/", "a", "b">>,
    <<"s", "h", "o", "r", "t", "s", "/", "a", "b", "?", "v", "=", "c", "d">>,
    <<>>,
    <<"w", "a", "t", "c", "h", "?", "v", "=">>,
    <<"w", "a", "t", "c", "h", "?", "v", "=", "&", "t", "=", "1">>,
    <<"y", "o", "u", "t", "u", "x", "b", "e", "/", "a", "b">>,
    <<"e", "x", "a", "m", "p", "l", "e", ".", "c", "o", "m", "/", "a", "b">> }

\* a title with every keyword, in upper case, and a digit
AllKeywords ==
  <<"S", "H", "O", "C", "K", "I", "N", "G", " ", "U", "N", "B", "E", "L",
  "I", "E", "V", "A", "B", "L", "E", " ", "S", "E", "C", "R", "E", "T", " ",
  "E", "X", "P", "O", "S", "E", "D", " ", "Y", "O", "U", " ", "W", "O", "N",
  "'", "T", " ", "B", "E", "L", "I", "E", "V", "E", " ", "I", "N", "S", "A",
  "N", "E", " ", "T", "R", "I", "C", "K", " ", "O", "V", "E", "R", "N", "I",
  "G", "H", "T", " ", "M", "I", "L", "L", "I", "O", "N", "A", "I", "R", "E",
  " ", "S", "C", "A", "M", " ", "W", "A", "R", "N", "I", "N", "G", " ", "M",
  "U", "S", "T", " ", "W", "A", "T", "C", "H", " ", "G", "O", "N", "E", " ",
  "W", "R", "O", "N", "G", " ", "L", "E", "A", "K", "E", "D", " ", "7">>

PlainTitle == <<"c", "a", "t">>

BaseTitles ==
  { PlainTitle,
    AllKeywords,
    <<"T", "O", "P", " ", "7", " ", "C", "A", "T", "S", " ", "E", "V", "E", "R">>,
    <<"S", "h", "o", "c", "k", "i", "n", "g", " ", "s", "e", "c", "r", "e", "t">>,
    <<"S", "H", "O", "C", "K", "I", "N", "G">>,
    <<"s", "e", "c", "r", "e", "t", " ", "s", "e", "c", "r", "e", "t">>,
    <<"1", "2", "3", "4", "5", "6", "7", "8", "9", "0", "1">> }

MarkCounts == {0, 4, 6, ManyMarks}

WithMarks(t, n, m) == t \o Repeat("!", n) \o Repeat("?", m)

\* info.get("title") when present and not empty
Titles ==
  BaseTitles
    \cup {WithMarks(PlainTitle, n, m) : n \in MarkCounts, m \in MarkCounts}
    \cup {WithMarks(AllKeywords, ManyMarks, ManyMarks)}

\* info.get("description")
Descriptions ==
  { None,
    <<" ", "\n">>,
    <<"a", " ", "c", "a", "t", " ", "v", "i", "d", "e", "o">> }

\* what ydl.extract_info does: raise, or return info
InfoOutcomes ==
  {[raised |-> TRUE]}
    \cup [raised : {FALSE}, title : Titles \cup {None, <<>>}, description : Descriptions]

\* what the transcript API does: raise, or return the list of caption texts
TranscriptOutcomes ==
  {[raised |-> TRUE]}
    \cup [raised : {FALSE},
          data : { <<>>,
                   << <<" ", "\t">> >>,
                   << <<"h", "e", "l", "l", "o">>, <<"c", "a", "t", "s">> >> }]

\* classifier(title)[0]["score"] in millionths
Scores == {0, 123450, 333100, 333300, 555300, 555600, 666700, 800000, 999800, 1000000}

\* what the classifier does: raise, or return a score in [0, 1]
ClassifierOutcomes ==
  {[raised |-> TRUE]} \cup [raised : {FALSE}, score : Scores]

\* util.cos_sim in millionths
Cosines == {-1000000, -1, 0, 200000, 333333, 999850, 1000000}

\* what the embedder does: encode raises at the first or the second call, or
\* both calls return and the cosine lies in [-1, 1]
EmbedderOutcomes ==
  [raised : {TRUE}, at : {1, 2}] \cup [raised : {FALSE}, cos : Cosines]

\* ------------------------------------------------------------------------
\* State of one request
\* ------------------------------------------------------------------------

VARIABLES
  pc,               \* where predict stands
  url,              \* data.url
  video_id,         \* locals of predict
  title,
  desc,
  transcript,
  used_transcript,
  full_text,
  ai_score,
  rule_score,
  sim_score,
  content,          \* what similarity_score hands to the embedder
  response,         \* what predict returned
  calls             \* how often each collaborator was invoked

vars == <<pc, url, video_id, title, desc, transcript, used_transcript,
          full_text, ai_score, rule_score, sim_score, content, response, calls>>

NoResponse == [pending |-> TRUE]

Init ==
  /\ pc = "idle"
  /\ url = None
  /\ video_id = None
  /\ title = None
  /\ desc = None
  /\ transcript = None
  /\ used_transcript = FALSE
  /\ full_text = None
  /\ ai_score = None
  /\ rule_score = None
  /\ sim_score = None
  /\ content = None
  /\ response = NoResponse
  /\ calls = [metadata |-> 0, transcript |-> 0, classifier |-> 0, embedder |-> 0]

Called(who, n) == calls' = [calls EXCEPT ![who] = @ + n]

\* lines 111-136: weighting, rounding, level and the returned object
Fuse(ai, rule, sim) ==
  \E f \in Finals(used_transcript, ai, rule, sim) :
    /\ response' = Success(title, ai, rule, sim, used_transcript, f)
    /\ pc' = "done"

\* Predict without the early return of lines 77-78
PredictUnchecked(u) ==
  /\ pc = "idle"
  /\ url' = u
  /\ video_id' = extract_id(u)
  /\ pc' = "get_video_info"
  /\ UNCHANGED <<title, desc, transcript, used_transcript, full_text,
                 ai_score, rule_score, sim_score, content, response, calls>>

\* lines 76-78: the request arrives, the id is extracted
Predict(u) ==
  /\ pc = "idle"
  /\ url' = u
  /\ video_id' = extract_id(u)
  /\ IF ~Truthy(video_id')
       THEN /\ response' = ErrorResponse("Invalid YouTube URL")
            /\ pc' = "done"
       ELSE /\ response' = response
            /\ pc' = "get_video_info"
  /\ UNCHANGED <<title, desc, transcript, used_transcript, full_text,
                 ai_score, rule_score, sim_score, content, calls>>

\* GetVideoInfo testing "title is None" instead of "not title"
GetVideoInfoNoneOnly(out) ==
  /\ pc = "get_video_info"
  /\ Called("metadata", 1)
  /\ title' = IF out.raised THEN None ELSE out.title
  /\ desc' = IF out.raised THEN None ELSE out.description
  /\ IF title' = None
       THEN /\ response' = ErrorResponse("Could not fetch video info")
            /\ pc' = "done"
       ELSE /\ response' = response
            /\ pc' = "get_transcript"
  /\ UNCHANGED <<url, video_id, transcript, used_transcript, full_text,
                 ai_score, rule_score, sim_score, content>>

\* lines 39-47 and 80-82: metadata fetched, an exception becomes (None, None)
GetVideoInfo(out) ==
  /\ pc = "get_video_info"
  /\ Called("metadata", 1)
  /\ title' = IF out.raised THEN None ELSE out.title
  /\ desc' = IF out.raised THEN None ELSE out.description
  /\ IF ~Truthy(title')
       THEN /\ response' = ErrorResponse("Could not fetch video info")
            /\ pc' = "done"
       ELSE /\ response' = response
            /\ pc' = "get_transcript"
  /\ UNCHANGED <<url, video_id, transcript, used_transcript, full_text,
                 ai_score, rule_score, sim_score, content>>

\* GetTranscript without the try/except of lines 50-58
GetTranscriptUncaught(out) ==
  /\ pc = "get_transcript"
  /\ Called("transcript", 1)
  /\ IF out.raised
       THEN /\ pc' = "crashed"
            /\ UNCHANGED <<transcript, used_transcript, full_text>>
       ELSE /\ transcript' = Join(out.data)
            /\ used_transcript' = (transcript' # None)
            /\ full_text' = OrEmpty(desc) \o <<" ">> \o OrEmpty(transcript')
            /\ pc' = "classifier"
  /\ UNCHANGED <<url, video_id, title, desc, ai_score, rule_score, sim_score,
                 content, response>>

\* lines 49-58 and 85-89: transcript fetched, an exception becomes None
GetTranscript(out) ==
  /\ pc = "get_transcript"
  /\ Called("transcript", 1)
  /\ transcript' = IF out.raised THEN None ELSE Join(out.data)
  /\ used_transcript' = (transcript' # None)
  /\ full_text' = OrEmpty(desc) \o <<" ">> \o OrEmpty(transcript')
  /\ pc' = "classifier"
  /\ UNCHANGED <<url, video_id, title, desc, ai_score, rule_score, sim_score,
                 content, response>>

\* lines 92-106 and 60-64: the classifier returns, the rule score is computed
\* and similarity_score is entered; with no content it returns 0 and predict
\* runs to its end, otherwise the embedder is called
Classify(out) ==
  /\ pc = "classifier"
  /\ Called("classifier", 1)
  /\ IF out.raised
       THEN /\ pc' = "crashed"
            /\ UNCHANGED <<ai_score, rule_score, sim_score, content, response>>
       ELSE \E ai \in AiScores(out.score) :
              /\ ai_score' = ai
              /\ rule_score' = RuleScore(title)
              /\ IF NoContent(full_text)
                   THEN /\ sim_score' = 0
                        /\ content' = content
                        /\ Fuse(ai, rule_score', 0)
                   ELSE /\ content' = Prefix(full_text, ContentLimit)
                        /\ pc' = "embedder"
                        /\ UNCHANGED <<sim_score, response>>
  /\ UNCHANGED <<url, video_id, title, desc, transcript, used_transcript, full_text>>

\* lines 65-68 and 111-136: the two encode calls and the cosine, then predict
\* runs to its end
Embed(out) ==
  /\ pc = "embedder"
  /\ IF out.raised
       THEN /\ Called("embedder", out.at)
            /\ pc' = "crashed"
            /\ UNCHANGED <<sim_score, response>>
       ELSE /\ Called("embedder", 2)
            /\ \E sim \in SimScores(out.cos) :
                 /\ sim_score' = sim
                 /\ Fuse(ai_score, rule_score, sim)
  /\ UNCHANGED <<url, video_id, title, desc, transcript, used_transcript,
                 full_text, ai_score, rule_score, content>>

Next ==
  \/ \E u \in Urls : Predict(u)
  \/ \E out \in InfoOutcomes : GetVideoInfo(out)
  \/ \E out \in TranscriptOutcomes : GetTranscript(out)
  \/ \E out \in ClassifierOutcomes : Classify(out)
  \/ \E out \in EmbedderOutcomes : Embed(out)

Spec == Init /\ [][Next]_vars

\* ------------------------------------------------------------------------
\* Properties
\* ------------------------------------------------------------------------

\* predict returned the success object
Succeeded == pc = "done" /\ "final_score" \in DOMAIN response

\* predict returned the error object with this message
Failed(msg) == pc = "done" /\ response = ErrorResponse(msg)

\* the classifier returned, so ai_score and rule_score are assigned
Scored == pc = "embedder" \/ Succeeded \/ (pc = "crashed" /\ calls.embedder > 0)

NoCalls == [metadata |-> 0, transcript |-> 0, classifier |-> 0, embedder |-> 0]

\* absent, empty or whitespace-only
Blank(s) == s = None \/ Range(s) \subseteq Whitespace

Abs(n) == IF n < 0 THEN -n ELSE n

\* C1: every success response has final_score in [0, 100].
C1_FinalScoreInRange ==
  Succeeded => response.final_score \in 0..10000

\* C2: the rule score is in [0, 40] for every title.
C2_RuleScoreInRange ==
  /\ Scored => rule_score \in 0..40
  /\ Succeeded => response.rule_score \in 0..40

\* C2 witness: every keyword, upper case, a digit and long runs of "!" and "?"
\* at once; the sum before the clamp is above 40.
C2_Witness ==
  /\ Succeeded
  /\ KeywordHits(title) = Len(CLICKBAIT_WORDS)
  /\ count(title, "!") >= ManyMarks /\ count(title, "?") >= ManyMarks
  /\ isupper(title) /\ Range(title) \cap Digits # {}
  /\ RuleRaw(title) = 147
  /\ response.rule_score = 40

\* C3: every success response has similarity_score in [0, 100].
C3_SimilarityInRange ==
  Succeeded => response.similarity_score \in 0..10000

\* C4: with no id in the URL predict returns the error "Invalid YouTube URL"
\* and no collaborator is invoked at any point of the request.
C4_InvalidUrl ==
  (pc # "idle" /\ ~Truthy(extract_id(url))) =>
     /\ Failed("Invalid YouTube URL")
     /\ calls = NoCalls

C4_Witness ==
  /\ url = <<"w", "a", "t", "c", "h", "?", "v", "=", "&", "t", "=", "1">>
  /\ Failed("Invalid YouTube URL")
  /\ calls = NoCalls

\* C5: when the metadata fetch yields no title predict returns the error
\* "Could not fetch video info"; no score is computed and neither the
\* classifier nor the embedder is invoked.
C5_NoTitle ==
  (calls.metadata > 0 /\ ~Truthy(title)) =>
     /\ Failed("Could not fetch video info")
     /\ calls.classifier = 0 /\ calls.embedder = 0
     /\ ~Scored

C5_Witness ==
  /\ calls.metadata = 1
  /\ title = <<>>
  /\ Failed("Could not fetch video info")
  /\ calls.classifier = 0 /\ calls.embedder = 0

\* C6: a failed transcript fetch never gives an error: the request goes on
\* to the classifier, only a classifier or embedder failure can end it
\* without a response, and a response is a success with transcript_used false.
C6_TranscriptFailure ==
  (calls.transcript > 0 /\ transcript = None) =>
     /\ pc \in {"classifier", "embedder", "done", "crashed"}
     /\ pc = "crashed" => calls.classifier > 0
     /\ pc = "done" => Succeeded /\ response.transcript_used = FALSE

C6_Witness ==
  /\ calls.transcript = 1 /\ transcript = None
  /\ Succeeded
  /\ response.transcript_used = FALSE

\* C7: final_score is the two-decimal rounding of
\* ai*0.45 + rule*0.25 + (100 - sim)*0.30 when transcript_used is true and of
\* ai*0.60 + rule*0.40 when it is false, where transcript_used says whether a
\* transcript was obtained; in degraded mode it depends on ai and rule only.
\* ai=80, rule=40, sim=20 gives 70.00 in full-data mode, 64.00 in degraded mode.
C7_Weighting ==
  Succeeded =>
    LET r    == response
        full == r.ai_score * 45 + r.rule_score * 2500 + (10000 - r.similarity_score) * 30
        degr == r.ai_score * 60 + r.rule_score * 4000
    IN  /\ r.transcript_used = (transcript # None)
        /\ r.transcript_used => Abs(100 * r.final_score - full) <= 50
        /\ ~r.transcript_used => Abs(100 * r.final_score - degr) < 50
        /\ (r.ai_score = 8000 /\ r.rule_score = 40) =>
              /\ (r.transcript_used /\ r.similarity_score = 2000) => r.final_score = 7000
              /\ ~r.transcript_used => r.final_score = 6400

C7_Witness ==
  /\ Succeeded
  /\ response.transcript_used
  /\ response.ai_score = 8000 /\ response.rule_score = 40
  /\ response.similarity_score = 2000
  /\ response.final_score = 7000

\* C8: risk_level and clickbait are functions of the rounded final_score:
\* Very High from 75, High from 60, Medium from 45, else Low; clickbait from 55.
C8_Levels ==
  Succeeded =>
    LET f == response.final_score
    IN  /\ response.risk_level = "Very High" <=> f >= 7500
        /\ response.risk_level = "High" <=> (6000 <= f /\ f < 7500)
        /\ response.risk_level = "Medium" <=> (4500 <= f /\ f < 6000)
        /\ response.risk_level = "Low" <=> f < 4500
        /\ response.clickbait <=> f >= 5500

C8_Witness ==
  /\ Succeeded
  /\ response.final_score = 7500
  /\ response.risk_level = "Very High"
  /\ response.clickbait

\* C9: similarity_score returns 0 without invoking the embedder when the
\* content is empty or whitespace-only; in predict that is so whenever the
\* description and the transcript are both absent or blank.
C9_BlankContent ==
  /\ \A c \in {None, <<>>, <<" ">>, <<" ", " ", " ">>, <<"\t", "\n", " ">>} : NoContent(c)
  /\ (calls.classifier > 0 /\ pc # "crashed" /\ Blank(desc) /\ Blank(transcript)) =>
        /\ Succeeded
        /\ response.similarity_score = 0
        /\ calls.embedder = 0

C9_Witness ==
  /\ Succeeded
  /\ desc = <<" ", "\n">>
  /\ transcript = None
  /\ response.similarity_score = 0
  /\ calls.embedder = 0

\* C10: a success response with transcript_used true has a similarity_score
\* computed by the embedder, never the default 0 of blank content.
C10_FullModeEmbedded ==
  (Succeeded /\ response.transcript_used) => calls.embedder = 2

====
